---- MODULE Spec2Model ----
(***************************************************************************)
(* Configuration resolution of the metrics viewer (commands/common.go,     *)
(* parseCommonConfig) followed by the polling loop that consumes the       *)
(* resolved configuration.                                                 *)
(*                                                                         *)
(* Text (flag values, patterns, metric names) is a tuple of one-character  *)
(* strings.  A 64-bit integer is a tuple of 8 limbs base 256, least        *)
(* significant first, in two's complement, so that strconv.ParseInt and    *)
(* the time.Duration multiplication keep their width.                      *)
(***************************************************************************)
EXTENDS Integers, Sequences, FiniteSets, TLC

----------------------------------------------------------------------------
(* 64-bit arithmetic on limbs *)

\* n zero limbs
ZeroLimbs(n) == [i \in 1..n |-> 0]

\* the value v (0 <= v < 256) as an unsigned number of n limbs
SmallLimbs(v, n) == [i \in 1..n |-> IF i = 1 THEN v ELSE 0]

\* a * m + c for a limb m, truncated to Len(a) limbs (wrapping)
RECURSIVE MulSmall(_, _, _)
MulSmall(a, m, c) ==
    IF a = <<>> THEN <<>>
    ELSE LET t == Head(a) * m + c
         IN  <<t % 256>> \o MulSmall(Tail(a), m, t \div 256)

\* a + b + c, truncated to Len(a) limbs (wrapping)
RECURSIVE AddLimbs(_, _, _)
AddLimbs(a, b, c) ==
    IF a = <<>> THEN <<>>
    ELSE LET t == Head(a) + Head(b) + c
         IN  <<t % 256>> \o AddLimbs(Tail(a), Tail(b), t \div 256)

\* a * 256^k, truncated to Len(a) limbs
ShiftLimbs(a, k) == SubSeq(ZeroLimbs(k) \o a, 1, Len(a))

\* a * b truncated to Len(a) limbs: Go's wrapping multiplication of two
\* integers of the same width
RECURSIVE MulLimbsFrom(_, _, _)
MulLimbsFrom(a, b, k) ==
    IF k > Len(b) THEN ZeroLimbs(Len(a))
    ELSE AddLimbs(ShiftLimbs(MulSmall(a, b[k], 0), k - 1),
                  MulLimbsFrom(a, b, k + 1), 0)

MulLimbs(a, b) == MulLimbsFrom(a, b, 1)

\* a widened with k zero limbs (an unsigned extension)
Widen(a, k) == a \o ZeroLimbs(k)

\* unsigned a < b, limbs compared from the most significant
RECURSIVE LessLimbs(_, _)
LessLimbs(a, b) ==
    IF a = <<>> THEN FALSE
    ELSE LET n == Len(a)
         IN  IF a[n] # b[n] THEN a[n] < b[n]
             ELSE LessLimbs(SubSeq(a, 1, n - 1), SubSeq(b, 1, n - 1))

\* the sign bit of a two's complement number
IsNegative(a) == a[Len(a)] >= 128

IsZero(a) == a = ZeroLimbs(Len(a))

\* -a in two's complement
NegLimbs(a) ==
    AddLimbs([i \in 1..Len(a) |-> 255 - a[i]], SmallLimbs(1, Len(a)), 0)

\* 2^63 as an unsigned 64-bit number: the cutoff of strconv.ParseInt
Cutoff63 == <<0, 0, 0, 0, 0, 0, 0, 128>>

\* time.Second = 1000000000 ns = 0x3B9ACA00
Second == <<0, 202, 154, 59, 0, 0, 0, 0>>

----------------------------------------------------------------------------
(* strconv.ParseInt(s, 10, 64) *)

DigitChars == <<"0", "1", "2", "3", "4", "5", "6", "7", "8", "9">>

IsDigit(c) == \E i \in 1..10 : DigitChars[i] = c

DigitVal(c) == (CHOOSE i \in 1..10 : DigitChars[i] = c) - 1

\* strconv.ParseUint(s, 10, 64) continued from the value n: the digits are
\* accumulated in 9 limbs so that a value beyond 64 bits is seen
RECURSIVE ParseUintFrom(_, _)
ParseUintFrom(s, n) ==
    IF s = <<>> THEN [err |-> "", val |-> SubSeq(n, 1, 8)]
    ELSE IF ~IsDigit(Head(s)) THEN [err |-> "syntax", val |-> ZeroLimbs(8)]
    ELSE LET n1 == MulSmall(n, 10, DigitVal(Head(s)))
         IN  IF n1[9] # 0 THEN [err |-> "range", val |-> ZeroLimbs(8)]
             ELSE ParseUintFrom(Tail(s), n1)

ParseUint(s) ==
    IF s = <<>> THEN [err |-> "syntax", val |-> ZeroLimbs(8)]
    ELSE ParseUintFrom(s, ZeroLimbs(9))

\* strconv.ParseInt(s, 10, 64): an optional sign, then ParseUint, then the
\* range check against 2^63
ParseInt(s) ==
    IF s = <<>> THEN [err |-> "syntax", val |-> ZeroLimbs(8)]
    ELSE LET neg  == Head(s) = "-"
             body == IF Head(s) \in {"+", "-"} THEN Tail(s) ELSE s
             un   == ParseUint(body)
         IN  IF un.err # "" THEN un
             ELSE IF ~neg /\ ~LessLimbs(un.val, Cutoff63)
                  THEN [err |-> "range", val |-> ZeroLimbs(8)]
             ELSE IF neg /\ LessLimbs(Cutoff63, un.val)
                  THEN [err |-> "range", val |-> ZeroLimbs(8)]
             ELSE [err |-> "", val |-> IF neg THEN NegLimbs(un.val) ELSE un.val]

\* time.Duration(intValue) * time.Second: a 64-bit wrapping multiplication
DurationOfSeconds(intValue) == MulLimbs(intValue, Second)

\* the product intValue * 10^9 without wrapping (16 limbs), for intValue >= 0
ExactNanoseconds(intValue) == MulLimbs(Widen(intValue, 8), Widen(Second, 8))

----------------------------------------------------------------------------
(* regexp.Compile and Regexp.MatchString, for patterns over PatternChars *)

\* Patterns are drawn from literals, the anchors ^ and $, the wildcard .,
\* the repetition * and the brackets [ and ( (which the bounded patterns
\* never close).

\* the instruction of one pattern character that is no repetition
AtomOf(c) ==
    [kind |-> IF c = "^" THEN "bol" ELSE IF c = "$" THEN "eol"
              ELSE IF c = "." THEN "any" ELSE "lit",
     ch |-> c, star |-> FALSE]

\* regexp/syntax.Parse with the Perl flags: the program read so far is acc
RECURSIVE ParseRegexp(_, _)
ParseRegexp(p, acc) ==
    IF p = <<>> THEN [err |-> "", prog |-> acc]
    ELSE IF Head(p) = "[" THEN [err |-> "missing closing ]", prog |-> <<>>]
    ELSE IF Head(p) = "(" THEN [err |-> "missing closing )", prog |-> <<>>]
    ELSE IF Head(p) = "*"
         THEN IF acc = <<>>
              THEN [err |-> "missing argument to repetition operator",
                    prog |-> <<>>]
              ELSE IF acc[Len(acc)].star
              THEN [err |-> "invalid nested repetition operator",
                    prog |-> <<>>]
              ELSE ParseRegexp(Tail(p),
                       [acc EXCEPT ![Len(acc)].star = TRUE])
    ELSE ParseRegexp(Tail(p), Append(acc, AtomOf(Head(p))))

\* a nil *regexp.Regexp
NilRegexp == [isNil |-> TRUE, expr |-> <<>>, prog |-> <<>>]

\* regexp.Compile(expr): the compiled expression and the error ("" is nil)
Compile(expr) ==
    LET r == ParseRegexp(expr, <<>>)
    IN  IF r.err # "" THEN [err |-> r.err, re |-> NilRegexp]
        ELSE [err |-> "",
              re |-> [isNil |-> FALSE, expr |-> expr, prog |-> r.prog]]

\* the instruction t consumes the character s[i + 1]
Consumes(t, s, i) ==
    /\ i < Len(s)
    /\ \/ t.kind = "any"
       \/ t.kind = "lit" /\ t.ch = s[i + 1]

\* the program matches s from position i (i characters already consumed)
RECURSIVE MatchHere(_, _, _)
MatchHere(prog, s, i) ==
    IF prog = <<>> THEN TRUE
    ELSE LET t == Head(prog)
         IN  IF t.kind = "bol" THEN (t.star \/ i = 0) /\ MatchHere(Tail(prog), s, i)
             ELSE IF t.kind = "eol"
                  THEN (t.star \/ i = Len(s)) /\ MatchHere(Tail(prog), s, i)
             ELSE IF t.star
                  THEN \E k \in 0..(Len(s) - i) :
                          /\ \A j \in i..(i + k - 1) : Consumes(t, s, j)
                          /\ MatchHere(Tail(prog), s, i + k)
             ELSE Consumes(t, s, i) /\ MatchHere(Tail(prog), s, i + 1)

\* Regexp.MatchString: an unanchored search
MatchString(re, s) == \E i \in 0..Len(s) : MatchHere(re.prog, s, i)

\* Regexp.String: the source text of the expression
RegexpString(re) == re.expr

\* a default filter that matches the empty name only
EmptyNameFilterExpr == <<"^", "$">>

\* the pattern of regexp.MustCompile(".*"), the filter when --filter is empty
DefaultFilterExpr == <<".", "*">>

----------------------------------------------------------------------------
(* strings.Split and provider.StringSet *)

\* strings.Split(s, ","): the tokens between the commas, empty ones kept;
\* cur is the token being read
RECURSIVE SplitFrom(_, _)
SplitFrom(s, cur) ==
    IF s = <<>> THEN <<cur>>
    ELSE IF Head(s) = "," THEN <<cur>> \o SplitFrom(Tail(s), <<>>)
    ELSE SplitFrom(Tail(s), Append(cur, Head(s)))

\* the flag value added as one label, without splitting it
SplitNotAtAll(s) == <<s>>

Split(s) == SplitFrom(s, <<>>)

\* a nil provider.StringSet, and the empty one of StringSet{}
NilStringSet == [isNil |-> TRUE, elems |-> {}]

EmptyStringSet == [isNil |-> FALSE, elems |-> {}]

\* StringSet.Add(values...)
StringSetAdd(set, values) ==
    [set EXCEPT !.elems = @ \cup {values[i] : i \in 1..Len(values)}]

----------------------------------------------------------------------------
(* the flags and the environment parseCommonConfig reads *)

Files == {"", "metrics.log"}

Urls == {"", "http://localhost:8081/metrics"}

Servers == {"", "rt1"}

Users == {"", "admin"}

Passwords == {"secret"}

MockValues == {"", "1"}

\* a flag with a default value: given on the command line or not
Given(v) == [given |-> TRUE, value |-> v]

NotGiven == [given |-> FALSE, value |-> <<>>]

\* IntervalFlag.DefaultValue
IntervalDefault == <<"5">>

\* AggregateIgnoreLabelsFlag.DefaultValue
AggregateIgnoreLabelsDefault == <<"s", "t", "a", "r", "t", ",", "e", "n", "d", ",", "s", "t", "a", "t", "u", "s">>

\* values of --interval: small ones, malformed ones, the largest number of
\* seconds whose nanoseconds fit 63 bits (9223372036) and its successor,
\* 2^64 / 10^9 rounded up (18446744074), 2^55 and 2^63
IntervalValues ==
    { <<"1">>, <<"0">>, <<"-", "3">>, <<"5", "s">>, <<>>,
      <<"9", "2", "2", "3", "3", "7", "2", "0", "3", "6">>,
      <<"9", "2", "2", "3", "3", "7", "2", "0", "3", "7">>,
      <<"1", "8", "4", "4", "6", "7", "4", "4", "0", "7", "4">>,
      <<"3", "6", "0", "2", "8", "7", "9", "7", "0", "1", "8", "9", "6", "3", "9", "6", "8">>,
      <<"9", "2", "2", "3", "3", "7", "2", "0", "3", "6", "8", "5", "4", "7", "7", "5", "8", "0", "8">> }

FilterValues ==
    { <<>>, <<"^", "h", "t", "t", "p", "_">>, <<"_", "t", "o", "t", "a", "l", "$">>, <<"u", ".", "*", "e">>, <<"[", "a">>, <<"a", "*", "*">> }

LabelValues ==
    { <<>>, <<"p", "o", "d">>, <<"A", "L", "L">>, <<"A", "L", "L", ",", "p", "o", "d">>, <<"N", "O", "N", "E", ",", "p", "o", "d">>, <<"a", ",", ",", "b">> }

\* metric family names a filter is applied to
FamilyNames ==
    { <<"h", "t", "t", "p", "_", "r", "e", "q", "u", "e", "s", "t", "s", "_", "t", "o", "t", "a", "l">>,
      <<"c", "p", "u", "_", "u", "s", "a", "g", "e">>,
      <<"h", "t", "t", "p", "_", "e", "r", "r", "o", "r", "s", "_", "t", "o", "t", "a", "l">> }

Contexts ==
    [file : Files, url : Urls, artifactory : BOOLEAN, server : Servers,
     user : Users, password : Passwords,
     interval : {NotGiven} \cup {Given(v) : v \in IntervalValues},
     filter : FilterValues,
     labels : {NotGiven} \cup {Given(v) : v \in LabelValues}]

\* components.Context.GetStringFlagValue for a flag with a default value
GetStringFlagValue(flag, default) ==
    IF flag.given THEN flag.value ELSE default

----------------------------------------------------------------------------
(* parseCommonConfig *)

VARIABLES
    ctx,              \* the flags of the command line (components.Context)
    mockEnv,          \* the environment variable MOCK_METRICS_DATA
    fs,               \* the paths os.Open can open
    pc,               \* the check parseCommonConfig is about to run
    conf,             \* the local conf of parseCommonConfig
    countInputFlags,  \* the local countInputFlags
    intValue,         \* the local intValue (the parsed --interval)
    retConf,          \* the returned *commonConfiguration
    retErr,           \* the returned error ("" is nil)
    effects,          \* the external calls made so far, with their outcome
    pstate,           \* the state of the poller
    cycle,            \* the poller's cycle counter
    events,           \* the Snapshots and error events published, in order
    fetched,          \* the outcome of each completed fetch, by cycle
    stopRequested     \* the stop signal

confVars == <<ctx, mockEnv, pc, conf, countInputFlags, intValue, retConf,
              retErr, effects>>

pollVars == <<pstate, cycle, events, fetched, stopRequested>>

vars == <<ctx, mockEnv, fs, pc, conf, countInputFlags, intValue, retConf,
          retErr, effects, pstate, cycle, events, fetched, stopRequested>>

\* a nil provider.UrlMetricsFetcher
NilFetcher == [kind |-> "nil", url |-> "", user |-> "", password |-> "",
               server |-> ""]

\* commonConfiguration{file: c.GetStringFlagValue("file")}
NewConf(file) ==
    [file |-> file, urlMetricsFetcher |-> NilFetcher,
     interval |-> ZeroLimbs(8), filter |-> NilRegexp,
     aggregateIgnoreLabels |-> NilStringSet]

\* a nil *commonConfiguration
NilConf == [isNil |-> TRUE, val |-> NewConf("")]

\* &conf
Ref(c) == [isNil |-> FALSE, val |-> c]

\* the interval validated before the sources are touched
CheckOrderIntervalFirst ==
    <<"count", "interval", "file", "artifactory", "url", "filter", "labels">>

\* the checks of parseCommonConfig, in the order of its statements
CheckOrder ==
    <<"count", "file", "artifactory", "url", "interval", "filter", "labels">>

\* the check that follows check p
NextCheck(p) ==
    CheckOrder[(CHOOSE i \in 1..Len(CheckOrder) : CheckOrder[i] = p) + 1]

\* the number of input flags supplied
CountInputFlags(c) ==
    (IF c.file # "" THEN 1 ELSE 0) + (IF c.url # "" THEN 1 ELSE 0)
        + (IF c.artifactory THEN 1 ELSE 0)

\* the mock escape hatch tested the wrong way round
MissingSourceMockInverted(count, mock) == count = 0 /\ mock # ""

\* countInputFlags == 0 && os.Getenv("MOCK_METRICS_DATA") == ""
MissingSource(count, mock) == count = 0 /\ mock = ""

\* an off-by-one in the upper bound on the number of sources
TooManySourcesOffByOne(count) == count > 2

\* countInputFlags > 1
TooManySources(count) == count > 1

\* the result of os.Open ignored
OpenNeverFails(path, files) == FALSE

\* os.Open(path) fails
OpenFails(path, files) == path \notin files

\* return nil, fmt.Errorf(...)
ReturnError(e) ==
    /\ retConf' = NilConf
    /\ retErr' = e
    /\ pc' = "returned"

Call(name, ok) == [call |-> name, ok |-> ok]

\* lines 117-132: the number of sources
CheckSourceCount ==
    /\ pc = "count"
    /\ countInputFlags' = CountInputFlags(ctx)
    /\ IF MissingSource(countInputFlags', mockEnv)
       THEN ReturnError("one flag is required")
       ELSE IF TooManySources(countInputFlags')
       THEN ReturnError("only one flag is required")
       ELSE pc' = NextCheck(pc) /\ UNCHANGED <<retConf, retErr>>
    /\ UNCHANGED <<ctx, mockEnv, fs, conf, intValue, effects>>
    /\ UNCHANGED pollVars

\* lines 134-140: the file is opened and closed
CheckFile ==
    /\ pc = "file"
    /\ IF conf.file = ""
       THEN pc' = NextCheck(pc) /\ UNCHANGED <<retConf, retErr, effects>>
       ELSE IF OpenFails(conf.file, fs)
       THEN /\ effects' = Append(effects, Call("os.Open", FALSE))
            /\ ReturnError("could not open file")
       ELSE /\ effects' = effects \o <<Call("os.Open", TRUE),
                                        Call("File.Close", TRUE)>>
            /\ pc' = NextCheck(pc)
            /\ UNCHANGED <<retConf, retErr>>
    /\ UNCHANGED <<ctx, mockEnv, fs, conf, countInputFlags, intValue>>
    /\ UNCHANGED pollVars

\* lines 142-156: the Artifactory server configuration and its fetcher
CheckArtifactory ==
    /\ pc = "artifactory"
    /\ IF ~ctx.artifactory
       THEN /\ pc' = NextCheck(pc)
            /\ UNCHANGED <<conf, retConf, retErr, effects>>
       ELSE \E loaded \in BOOLEAN, built \in BOOLEAN :
               IF ~loaded
               THEN /\ effects' = Append(effects, Call("GetConfig", FALSE))
                    /\ ReturnError(IF ctx.server = ""
                          THEN "could not load configuration for current Artifactory server"
                          ELSE "could not load configuration for Artifactory server")
                    /\ UNCHANGED conf
               ELSE IF ~built
               THEN /\ effects' = effects \o
                          <<Call("GetConfig", TRUE),
                            Call("NewArtifactoryMetricsFetcher", FALSE)>>
                    /\ ReturnError("could not initiate metrics fetcher from Artifactory")
                    /\ UNCHANGED conf
               ELSE /\ effects' = effects \o
                          <<Call("GetConfig", TRUE),
                            Call("NewArtifactoryMetricsFetcher", TRUE)>>
                    /\ conf' = [conf EXCEPT !.urlMetricsFetcher =
                                   [kind |-> "artifactory", url |-> "",
                                    user |-> "", password |-> "",
                                    server |-> ctx.server]]
                    /\ pc' = NextCheck(pc)
                    /\ UNCHANGED <<retConf, retErr>>
    /\ UNCHANGED <<ctx, mockEnv, fs, countInputFlags, intValue>>
    /\ UNCHANGED pollVars

\* lines 158-162: the URL fetcher
CheckUrl ==
    /\ pc = "url"
    /\ IF ctx.url = ""
       THEN UNCHANGED <<conf, effects>>
       ELSE /\ effects' = Append(effects, Call("NewUrlMetricsFetcher", TRUE))
            /\ conf' = [conf EXCEPT !.urlMetricsFetcher =
                           [kind |-> "url", url |-> ctx.url,
                            user |-> ctx.user, password |-> ctx.password,
                            server |-> ""]]
    /\ pc' = NextCheck(pc)
    /\ UNCHANGED <<ctx, mockEnv, fs, countInputFlags, intValue, retConf, retErr>>
    /\ UNCHANGED pollVars

\* lines 166-174: the interval
CheckInterval ==
    /\ pc = "interval"
    /\ LET flagValue == GetStringFlagValue(ctx.interval, IntervalDefault)
           parsed    == ParseInt(flagValue)
       IN  IF parsed.err # ""
           THEN /\ ReturnError("failed to parse interval value")
                /\ UNCHANGED <<conf, intValue>>
           ELSE /\ intValue' = parsed.val
                /\ IF IsNegative(parsed.val) \/ IsZero(parsed.val)
                   THEN /\ ReturnError("interval value must be positive")
                        /\ UNCHANGED conf
                   ELSE /\ conf' = [conf EXCEPT !.interval =
                                       DurationOfSeconds(parsed.val)]
                        /\ pc' = NextCheck(pc)
                        /\ UNCHANGED <<retConf, retErr>>
    /\ UNCHANGED <<ctx, mockEnv, fs, countInputFlags, effects>>
    /\ UNCHANGED pollVars

\* lines 176-183: the filter
CheckFilter ==
    /\ pc = "filter"
    /\ LET flagValue == ctx.filter
           default   == Compile(DefaultFilterExpr).re
           compiled  == Compile(flagValue)
       IN  IF flagValue = <<>>
           THEN /\ conf' = [conf EXCEPT !.filter = default]
                /\ pc' = NextCheck(pc)
                /\ UNCHANGED <<retConf, retErr>>
           ELSE IF compiled.err # ""
           THEN /\ ReturnError("invalid filter expression")
                /\ conf' = [conf EXCEPT !.filter = compiled.re]
           ELSE /\ conf' = [conf EXCEPT !.filter = compiled.re]
                /\ pc' = NextCheck(pc)
                /\ UNCHANGED <<retConf, retErr>>
    /\ UNCHANGED <<ctx, mockEnv, fs, countInputFlags, intValue, effects>>
    /\ UNCHANGED pollVars

\* the set --aggregate-ignore-labels resolves to
ResolveIgnoreLabels(flagValue) ==
    IF flagValue = <<>> THEN EmptyStringSet
    ELSE StringSetAdd(EmptyStringSet, Split(flagValue))

\* lines 185-191: the labels to ignore, and the return of the configuration
CheckLabels ==
    /\ pc = "labels"
    /\ LET flagValue ==
               GetStringFlagValue(ctx.labels, AggregateIgnoreLabelsDefault)
       IN  conf' = [conf EXCEPT !.aggregateIgnoreLabels =
                       ResolveIgnoreLabels(flagValue)]
    /\ retConf' = Ref(conf')
    /\ retErr' = ""
    /\ pc' = "returned"
    /\ UNCHANGED <<ctx, mockEnv, fs, countInputFlags, intValue, effects>>
    /\ UNCHANGED pollVars

\* the state in which parseCommonConfig is called with one of the contexts
InitFrom(contexts) ==
    /\ ctx \in contexts
    /\ mockEnv \in MockValues
    /\ fs \in SUBSET (Files \ {""})
    /\ pc = "count"
    /\ conf = NewConf(ctx.file)
    /\ countInputFlags = 0
    /\ intValue = ZeroLimbs(8)
    /\ retConf = NilConf
    /\ retErr = ""
    /\ effects = <<>>
    /\ pstate = "Idle"
    /\ cycle = 0
    /\ events = <<>>
    /\ fetched = <<>>
    /\ stopRequested = FALSE

Init == InitFrom(Contexts)

Next ==
    \/ CheckSourceCount
    \/ CheckFile
    \/ CheckArtifactory
    \/ CheckUrl
    \/ CheckInterval
    \/ CheckFilter
    \/ CheckLabels

Spec == Init /\ [][Next]_vars

----------------------------------------------------------------------------
(* the poller: Idle, Fetching, Parsing, Aggregating, Published, Sleeping,  *)
(* Stopped                                                                 *)

\* the number of cycles the poller is followed for
MaxCycles == 3

\* the configuration was resolved: the poller is constructed from it
PollerExists == pc = "returned" /\ ~retConf.isNil

Snapshot(c) == [kind |-> "snapshot", cycle |-> c]

ErrorEvent(c) == [kind |-> "error", cycle |-> c]

\* the fetch of the active source succeeds: the file variant reads the whole
\* file, the URL and remote-API variants depend on the network (net), and
\* the mock data of MOCK_METRICS_DATA is always there
FetchSucceeds(c, files, net) ==
    IF c.file # "" THEN c.file \in files
    ELSE IF c.urlMetricsFetcher.kind # "nil" THEN net
    ELSE TRUE

\* the stop signal honoured before the first cycle only
HaltsAtStartOnly(state) == state = "Idle"

\* the states in which the loop honours the stop signal: the top of the
\* first cycle, the blocking fetch call and the sleep boundary
HaltsAt(state) == state \in {"Idle", "Fetching", "Sleeping"}

\* a failed fetch that publishes a Snapshot after its error event
EventsAfterFailureWithSnapshot(evs, c) ==
    Append(Append(evs, [kind |-> "error", cycle |-> c]),
           [kind |-> "snapshot", cycle |-> c])

\* the events after a failed fetch of cycle c: one error event
EventsAfterFailure(evs, c) == Append(evs, ErrorEvent(c))

\* the events after the aggregation of cycle c: one Snapshot
EventsAfterPublish(evs, c) == Append(evs, Snapshot(c))

Halt ==
    /\ pstate' = "Stopped"
    /\ UNCHANGED <<cycle, events, fetched>>

\* Idle -> Fetching: the first cycle begins
Start ==
    /\ PollerExists
    /\ pstate = "Idle"
    /\ IF stopRequested /\ HaltsAt(pstate)
       THEN Halt
       ELSE /\ pstate' = "Fetching"
            /\ cycle' = 1
            /\ UNCHANGED <<events, fetched>>
    /\ UNCHANGED <<stopRequested, fs>>
    /\ UNCHANGED confVars

\* Fetching -> Parsing on success, -> Sleeping with an error event on failure
Fetch ==
    /\ pstate = "Fetching"
    /\ IF stopRequested /\ HaltsAt(pstate)
       THEN Halt
       ELSE \E net \in BOOLEAN :
               LET ok == FetchSucceeds(retConf.val, fs, net)
               IN  /\ fetched' = Append(fetched, ok)
                   /\ IF ok
                      THEN pstate' = "Parsing" /\ UNCHANGED events
                      ELSE /\ pstate' = "Sleeping"
                           /\ events' = EventsAfterFailure(events, cycle)
                   /\ UNCHANGED cycle
    /\ UNCHANGED <<stopRequested, fs>>
    /\ UNCHANGED confVars

\* Parsing -> Aggregating: the text is parsed and the families filtered
Parse ==
    /\ pstate = "Parsing"
    /\ pstate' = "Aggregating"
    /\ UNCHANGED <<cycle, events, fetched, stopRequested, fs>>
    /\ UNCHANGED confVars

\* Aggregating -> Published: the cycle's Snapshot is published
Aggregate ==
    /\ pstate = "Aggregating"
    /\ pstate' = "Published"
    /\ events' = EventsAfterPublish(events, cycle)
    /\ UNCHANGED <<cycle, fetched, stopRequested, fs>>
    /\ UNCHANGED confVars

\* Published -> Sleeping
Sleep ==
    /\ pstate = "Published"
    /\ pstate' = "Sleeping"
    /\ UNCHANGED <<cycle, events, fetched, stopRequested, fs>>
    /\ UNCHANGED confVars

\* Sleeping -> Fetching: the interval has passed and the next cycle begins
Wake ==
    /\ pstate = "Sleeping"
    /\ IF stopRequested /\ HaltsAt(pstate)
       THEN Halt
       ELSE /\ cycle < MaxCycles
            /\ pstate' = "Fetching"
            /\ cycle' = cycle + 1
            /\ UNCHANGED <<events, fetched>>
    /\ UNCHANGED <<stopRequested, fs>>
    /\ UNCHANGED confVars

\* the external stop signal
RequestStop ==
    /\ PollerExists
    /\ pstate # "Stopped"
    /\ ~stopRequested
    /\ stopRequested' = TRUE
    /\ UNCHANGED <<pstate, cycle, events, fetched, fs>>
    /\ UNCHANGED confVars

\* the metrics file disappears or comes back while the poller runs
ChangeFile ==
    /\ PollerExists
    /\ pstate \notin {"Idle", "Stopped"}
    /\ conf.file # ""
    /\ fs' = IF conf.file \in fs THEN fs \ {conf.file}
             ELSE fs \cup {conf.file}
    /\ UNCHANGED pollVars
    /\ UNCHANGED confVars

PollerNext ==
    \/ Start
    \/ Fetch
    \/ Parse
    \/ Aggregate
    \/ Sleep
    \/ Wake

\* the contexts the poller is followed from: every choice of source, with
\* a valid or an invalid interval
RunContexts ==
    [file : Files, url : Urls, artifactory : BOOLEAN, server : {""},
     user : {""}, password : Passwords,
     interval : {NotGiven, Given(<<"0">>)},
     filter : {<<>>},
     labels : {NotGiven}]

RunInit == InitFrom(RunContexts)

RunNext ==
    \/ Next
    \/ PollerNext
    \/ RequestStop
    \/ ChangeFile

\* the loop is one thread that keeps running: it takes its next step
RunSpec == RunInit /\ [][RunNext]_vars /\ WF_vars(PollerNext)

----------------------------------------------------------------------------
(* the properties of configuration resolution *)

\* the source flags supplied: a non-empty --file, a non-empty --url, a true
\* --artifactory
Supplied ==
    {f \in {"file", "url", "artifactory"} :
        \/ f = "file" /\ ctx.file # ""
        \/ f = "url" /\ ctx.url # ""
        \/ f = "artifactory" /\ ctx.artifactory}

Returned == pc = "returned"

ReturnedConf == pc = "returned" /\ ~retConf.isNil

ReturnedError == pc = "returned" /\ retConf.isNil /\ retErr # ""

\* C1: once the source count has been checked, more than one supplied
\* source (whatever MOCK_METRICS_DATA is) and no supplied source with
\* MOCK_METRICS_DATA empty have each made parseCommonConfig return an error
\* and no configuration, with no file opened and no fetcher constructed.
C1_SourceCountValidated ==
    pc # "count" =>
        /\ Cardinality(Supplied) > 1 =>
              /\ ReturnedError
              /\ retErr = "only one flag is required"
              /\ effects = <<>>
        /\ (Cardinality(Supplied) = 0 /\ mockEnv = "") =>
              /\ ReturnedError
              /\ retErr = "one flag is required"
              /\ effects = <<>>

C1_Witness ==
    /\ Returned
    /\ Cardinality(Supplied) = 3
    /\ mockEnv # ""
    /\ retErr = "only one flag is required"

\* the sources active in the returned configuration
FileActive == retConf.val.file # ""

FetcherActive == retConf.val.urlMetricsFetcher.kind # "nil"

\* C2 as claimed: every returned configuration has exactly one of a
\* non-empty File() and a set UrlMetricsFetcher().
C2_ExactlyOneSource ==
    ReturnedConf => (FileActive /\ ~FetcherActive) \/ (~FileActive /\ FetcherActive)

\* C2 as amended: a returned configuration never has both sources; it has
\* the one supplied source, and it has none exactly when no source flag was
\* supplied and MOCK_METRICS_DATA is non-empty.
C2_AtMostOneSource ==
    ReturnedConf =>
        /\ ~(FileActive /\ FetcherActive)
        /\ (~FileActive /\ ~FetcherActive) <=> (Supplied = {} /\ mockEnv # "")
        /\ FileActive <=> Supplied = {"file"}
        /\ retConf.val.urlMetricsFetcher.kind = "url" <=> Supplied = {"url"}
        /\ retConf.val.urlMetricsFetcher.kind = "artifactory"
              <=> Supplied = {"artifactory"}

C2_Witness ==
    /\ ReturnedConf
    /\ Supplied = {}
    /\ mockEnv # ""
    /\ ~FileActive
    /\ ~FetcherActive

\* the values of --interval that are no base-10 integer of 64 bits, and
\* those that are one but not positive
MalformedIntervals ==
    { <<"5", "s">>, <<>>,
      <<"9", "2", "2", "3", "3", "7", "2", "0", "3", "6", "8", "5", "4", "7", "7", "5", "8", "0", "8">> }

NonPositiveIntervals == { <<"0">>, <<"-", "3">> }

IntervalFlagValue == GetStringFlagValue(ctx.interval, IntervalDefault)

\* C3: a returned configuration's Interval() is positive, at least one
\* second, and equal to the parsed number of seconds times 10^9; a value of
\* --interval that is no base-10 integer or is <= 0 yields an error.
C3_IntervalPositive ==
    /\ ReturnedConf =>
          /\ ~IsNegative(retConf.val.interval)
          /\ ~LessLimbs(retConf.val.interval, Second)
          /\ Widen(retConf.val.interval, 8) = ExactNanoseconds(intValue)
    /\ (Returned /\ IntervalFlagValue \in MalformedIntervals \cup NonPositiveIntervals)
          => ReturnedError

\* the patterns regexp.Compile rejects
InvalidFilters == { <<"[", "a">>, <<"a", "*", "*">> }

\* the family names each valid pattern keeps
KeptBy(pattern) ==
    IF pattern = <<"^", "h", "t", "t", "p", "_">>
    THEN { <<"h", "t", "t", "p", "_", "r", "e", "q", "u", "e", "s", "t", "s", "_", "t", "o", "t", "a", "l">>,
           <<"h", "t", "t", "p", "_", "e", "r", "r", "o", "r", "s", "_", "t", "o", "t", "a", "l">> }
    ELSE IF pattern = <<"_", "t", "o", "t", "a", "l", "$">>
    THEN { <<"h", "t", "t", "p", "_", "r", "e", "q", "u", "e", "s", "t", "s", "_", "t", "o", "t", "a", "l">>,
           <<"h", "t", "t", "p", "_", "e", "r", "r", "o", "r", "s", "_", "t", "o", "t", "a", "l">> }
    ELSE IF pattern = <<"u", ".", "*", "e">>
    THEN { <<"h", "t", "t", "p", "_", "r", "e", "q", "u", "e", "s", "t", "s", "_", "t", "o", "t", "a", "l">>,
           <<"c", "p", "u", "_", "u", "s", "a", "g", "e">> }
    ELSE FamilyNames

\* C4: an empty --filter resolves to a filter that matches every family
\* name; a valid pattern resolves to exactly that pattern (^http_ keeps
\* http_requests_total and http_errors_total and drops cpu_usage); an
\* invalid pattern yields an error and no configuration.
C4_FilterResolved ==
    /\ ReturnedConf =>
          /\ ~retConf.val.filter.isNil
          /\ ctx.filter = <<>> =>
                \A n \in FamilyNames : MatchString(retConf.val.filter, n)
          /\ ctx.filter # <<>> =>
                RegexpString(retConf.val.filter) = ctx.filter
          /\ {n \in FamilyNames : MatchString(retConf.val.filter, n)}
                = KeptBy(ctx.filter)
    /\ (Returned /\ ctx.filter \in InvalidFilters) => ReturnedError

C4_Witness ==
    /\ ReturnedConf
    /\ ctx.filter = <<"^", "h", "t", "t", "p", "_">>
    /\ ~MatchString(retConf.val.filter, <<"c", "p", "u", "_", "u", "s", "a", "g", "e">>)

\* the labels each value of --aggregate-ignore-labels names, token by token
TokensOf(flag) ==
    IF ~flag.given
    THEN { <<"s", "t", "a", "r", "t">>, <<"e", "n", "d">>, <<"s", "t", "a", "t", "u", "s">> }
    ELSE IF flag.value = <<"p", "o", "d">> THEN { <<"p", "o", "d">> }
    ELSE IF flag.value = <<"A", "L", "L">> THEN { <<"A", "L", "L">> }
    ELSE IF flag.value = <<"A", "L", "L", ",", "p", "o", "d">> THEN { <<"A", "L", "L">>, <<"p", "o", "d">> }
    ELSE IF flag.value = <<"N", "O", "N", "E", ",", "p", "o", "d">> THEN { <<"N", "O", "N", "E">>, <<"p", "o", "d">> }
    ELSE IF flag.value = <<"a", ",", ",", "b">> THEN { <<"a">>, <<>>, <<"b">> }
    ELSE {}

\* the set a value of the flag resolves to when the sentinels ALL and NONE
\* override the labels named beside them
SentinelsOverride(tokens) ==
    IF <<"A", "L", "L">> \in tokens THEN { <<"A", "L", "L">> }
    ELSE IF <<"N", "O", "N", "E">> \in tokens THEN { <<"N", "O", "N", "E">> }
    ELSE tokens

IgnoreLabels == retConf.val.aggregateIgnoreLabels.elems

C9_AllOrNothing ==
    Returned =>
        /\ ReturnedError \/ (ReturnedConf /\ retErr = "")
        /\ ReturnedConf =>
              /\ ~retConf.val.filter.isNil
              /\ ~IsZero(retConf.val.interval)
              /\ ~retConf.val.aggregateIgnoreLabels.isNil

\* the external calls of a check that passes
FileEffects ==
    IF ctx.file = "" THEN <<>>
    ELSE <<Call("os.Open", TRUE), Call("File.Close", TRUE)>>

ArtifactoryEffects ==
    IF ~ctx.artifactory THEN <<>>
    ELSE <<Call("GetConfig", TRUE), Call("NewArtifactoryMetricsFetcher", TRUE)>>

UrlEffects ==
    IF ctx.url = "" THEN <<>> ELSE <<Call("NewUrlMetricsFetcher", TRUE)>>

CountErrors == {"one flag is required", "only one flag is required"}

ArtifactoryErrors ==
    {"could not load configuration for current Artifactory server",
     "could not load configuration for Artifactory server",
     "could not initiate metrics fetcher from Artifactory"}

IntervalErrors ==
    {"failed to parse interval value", "interval value must be positive"}

\* what fails, told from the flags and the environment alone
SourceCountFails ==
    Cardinality(Supplied) > 1 \/ (Cardinality(Supplied) = 0 /\ mockEnv = "")

FileFails == ctx.file # "" /\ ctx.file \notin fs

IntervalFails ==
    IntervalFlagValue \in MalformedIntervals \cup NonPositiveIntervals

FilterFails == ctx.filter \in InvalidFilters

\* C10: the checks run in the order source count, file, Artifactory, URL,
\* interval, filter, labels and the first that fails decides the error: a
\* source-count error comes with no external call made, a file error with
\* the failed open alone, and an interval or filter error only after the
\* file was opened and closed, the Artifactory configuration loaded and
\* the fetcher constructed.
C10_ValidationOrder ==
    Returned =>
        /\ SourceCountFails <=> retErr \in CountErrors
        /\ retErr \in CountErrors => effects = <<>>
        /\ (~SourceCountFails /\ FileFails) <=> retErr = "could not open file"
        /\ retErr = "could not open file"
              => effects = <<Call("os.Open", FALSE)>>
        /\ retErr \in ArtifactoryErrors =>
              /\ ctx.artifactory
              /\ ~SourceCountFails /\ ~FileFails
              /\ SubSeq(effects, 1, Len(FileEffects)) = FileEffects
              /\ ~effects[Len(effects)].ok
        /\ retErr \in IntervalErrors \cup {"invalid filter expression", ""} =>
              effects = FileEffects \o ArtifactoryEffects \o UrlEffects
        /\ retErr \in IntervalErrors =>
              /\ ~SourceCountFails /\ ~FileFails
              /\ IntervalFails
        /\ retErr = "invalid filter expression" =>
              /\ ~SourceCountFails /\ ~FileFails /\ ~IntervalFails
              /\ FilterFails
        /\ retErr = "" => ~(SourceCountFails \/ FileFails \/ FilterFails
                             \/ IntervalFails)

C10_Witness ==
    /\ Returned
    /\ retErr \in IntervalErrors
    /\ FilterFails
    /\ ctx.file # ""
    /\ effects = <<Call("os.Open", TRUE), Call("File.Close", TRUE)>>

----------------------------------------------------------------------------
(* the properties of a run: resolution, then polling *)

\* C6 as claimed: a metrics file that cannot be opened never aborts the
\* run, not even when it is missing while --file is resolved: resolution
\* never ends with the error of the failed open.
C6_MissingFileNeverAborts ==
    Returned => retErr # "could not open file"

\* C6 as amended: a file that cannot be opened while --file is resolved
\* aborts the run (an error, no configuration, the poller never starts and
\* publishes nothing), so a poller that has not yet started has a file that
\* could be opened; once the poller runs, a failed read is an error event
\* of its cycle and only a stop request stops the loop.
C6_MissingFileAbortsResolutionOnly ==
    /\ (PollerExists /\ pstate = "Idle" /\ ctx.file # "") => ctx.file \in fs
    /\ (Returned /\ retErr = "could not open file") =>
          /\ retConf.isNil
          /\ pstate = "Idle" /\ cycle = 0 /\ events = <<>>
    /\ \A i \in 1..Len(events) : ~fetched[i] => events[i] = ErrorEvent(i)
    /\ pstate = "Stopped" => stopRequested

C6_Witness ==
    /\ Returned
    /\ Supplied = {"file"}
    /\ retErr = "could not open file"
    /\ retConf.isNil
    /\ pstate = "Idle"

\* C7: whatever the fetches do, cycle i publishes exactly one event, the
\* i-th: a Snapshot when its fetch succeeded, an error event when it
\* failed; the events are in cycle order, at most the running cycle has
\* none yet, and a failed fetch leaves the loop running.
C7_OneEventPerCycleInOrder ==
    /\ \A i \in 1..Len(events) :
          /\ events[i].cycle = i
          /\ events[i].kind = IF fetched[i] THEN "snapshot" ELSE "error"
    /\ Len(fetched) <= cycle
    /\ Len(events) <= Len(fetched)
    /\ Len(events) >= cycle - 1
    /\ (Len(events) < Len(fetched)) =>
          (fetched[Len(fetched)] /\ pstate \in {"Parsing", "Aggregating"})
    /\ (pstate = "Stopped" => stopRequested)

C7_Witness ==
    /\ events = <<Snapshot(1), ErrorEvent(2), Snapshot(3)>>
    /\ fetched = <<TRUE, FALSE, TRUE>>

\* a Snapshot is published by the step
PublishesSnapshot ==
    /\ Len(events') = Len(events) + 1
    /\ events'[Len(events')].kind = "snapshot"

====
